---- MODULE Spec2Model ----
(***************************************************************************)
(* Model of the checkout flow script run() of LabubuBot and of the         *)
(* constant adapter it imports.                                            *)
(*                                                                         *)
(* run() is one sequential async function: every `await` is one step of    *)
(* the state machine.  A step records the browser-controller call it makes *)
(* in `calls` (with the outcome the controller gave: ok or thrown) and the *)
(* log lines that follow it in `log`.  Every awaited controller call may   *)
(* reject; delay() (a timer) and the synchronous getter page.url() cannot. *)
(* page.url() only feeds the text of two log lines and is modelled as      *)
(* part of those lines.                                                    *)
(***************************************************************************)
EXTENDS Integers, Sequences, FiniteSets, TLC

VARIABLES
    loaded,        \* what require("../config/config_loader") exports
    pc,            \* position of run(): the next await, or "done"
    calls,         \* history of controller calls, in program order
    log,           \* history of log lines (level, message)
    found,         \* the local `found` of the step-6 loop
    localStorage,  \* the page's localStorage: key -> stored text
    overflow       \* TRUE once failed polls beyond MaxFail are not recorded

vars == <<loaded, pc, calls, log, found, localStorage, overflow>>

----------------------------------------------------------------------------
(* Bounds *)

\* failed buy-now polls that are recorded in calls/log; later ones still
\* happen (the loop goes on) but leave the histories unchanged
MaxFail == 2
\* longest storage seed (number of keys) the inputs range over
MaxSeedLen == 2

----------------------------------------------------------------------------
(* Values of the configuration *)

Num(n) == [t |-> "num", n |-> n, s |-> <<>>]
Str(s) == [t |-> "str", n |-> 0, s |-> s]

\* the double quote and the backslash, the two characters JSON escapes
DQ == "\""
BS == "\\"

SeedKeys == {"a", "b"}
SeedValues == {Num(1), Str(<<"x">>), Str(<<DQ>>)}

RECURSIVE SeedsOfLen(_)
SeedsOfLen(n) ==
    IF n = 0 THEN {<<>>}
    ELSE {Append(s, [key |-> k, value |-> v]) :
            s \in {p \in SeedsOfLen(n - 1) :
                     Cardinality({p[i].key : i \in 1..Len(p)}) = n - 1},
            k \in SeedKeys, v \in SeedValues}

HasDistinctKeys(s) == Cardinality({s[i].key : i \in 1..Len(s)}) = Len(s)

\* storage seeds: objects as the ordered list of their own properties
Seeds == {s \in UNION {SeedsOfLen(n) : n \in 0..MaxSeedLen} : HasDistinctKeys(s)}

ConfigLocators ==
    [agreement |-> "#agree", buy_now |-> "#buy", go_to_cart |-> "#cart",
     checkout |-> "#checkout", checkbox |-> "#checkbox", pay |-> "#pay",
     ordering |-> "#ordering"]

Targets == {"https://shop/p1", "https://shop/p2"}

LoadedConfigs ==
    [config : [locators : {ConfigLocators}, target_product : Targets],
     cookie : {"cookies"},
     storage : Seeds]

\* src/utils/constant.js: the adapter's exports
AdapterExports ==
    [LOCATORS |->
        [AGREEMENT  |-> loaded.config.locators.agreement,
         BUY_NOW    |-> loaded.config.locators.buy_now,
         GO_TO_CART |-> loaded.config.locators.go_to_cart,
         CHECKOUT   |-> loaded.config.locators.checkout,
         CHECKBOX   |-> loaded.config.locators.checkbox,
         PAY        |-> loaded.config.locators.pay,
         ORDERING   |-> loaded.config.locators.ordering],
     TARGET_PRODUCT |-> loaded.config.target_product,
     COOKIE |-> loaded.cookie,
     STORAGE |-> loaded.storage]

----------------------------------------------------------------------------
(* Fixed values written in run() *)

ViewportWidth == 1080
ViewportHeight == 1024
BuyNowTimeout == 3000
GoToCartTimeout == 5000
CheckoutTimeout == 1000
PayTimeout == 8000
LoadPause == 5000
LongIdle == 999999
\* no timeout option given: the controller's default applies
NoTimeout == 0

----------------------------------------------------------------------------
(* JSON.stringify on the values of the seed *)

RECURSIVE EscapeChars(_)
EscapeChars(s) ==
    IF s = <<>> THEN ""
    ELSE (IF Head(s) \in {DQ, BS} THEN BS \o Head(s) ELSE Head(s))
         \o EscapeChars(Tail(s))

\* variant: the quotes around a string value are left out
JSONstringify_Raw(v) ==
    IF v.t = "num" THEN ToString(v.n)
    ELSE EscapeChars(v.s)

JSONstringify(v) ==
    IF v.t = "num" THEN ToString(v.n)
    ELSE DQ \o EscapeChars(v.s) \o DQ

\* localStorage.setItem(key, text)
setItem(store, key, text) ==
    [k \in (DOMAIN store) \cup {key} |-> IF k = key THEN text ELSE store[k]]

\* the body of the function evaluated in the page, run over the first n
\* properties of the seed in for-in order
RECURSIVE InjectFirst(_, _, _)
InjectFirst(store, seed, n) ==
    IF n = 0 THEN store
    ELSE setItem(InjectFirst(store, seed, n - 1),
                 seed[n].key, JSONstringify(seed[n].value))

InjectStorage(store, seed) == InjectFirst(store, seed, Len(seed))

----------------------------------------------------------------------------
(* Calls and log lines *)

Call(op, target, timeout, flag, ok) ==
    [op |-> op, target |-> target, timeout |-> timeout, flag |-> flag, ok |-> ok]

Info(msg) == [level |-> "info", msg |-> msg]
Warn(msg) == [level |-> "warn", msg |-> msg]
Error(msg) == [level |-> "error", msg |-> msg]

\* variant: the handler closes the browser after logging
TopLevelCatch_Closes(call) ==
    /\ calls' = Append(Append(calls, call), Call("close", "", NoTimeout, "", TRUE))
    /\ log' = Append(log, Error("Error"))
    /\ pc' = "done"

\* catch (error) { log.error(...) } of run(): the flow ends here
TopLevelCatch(call) ==
    /\ calls' = Append(calls, call)
    /\ log' = Append(log, Error("Error"))
    /\ pc' = "done"

\* variant: a failed call is logged as an error and the flow goes on
Await_Swallow(call, next, lines) ==
    /\ calls' = Append(calls, call)
    /\ log' = IF call.ok THEN log \o lines ELSE Append(log, Error("Error"))
    /\ pc' = next

\* an awaited call outside every local try: on success the lines after it
\* run up to the next await, on failure control goes to the top-level catch
Await(call, next, lines) ==
    IF call.ok
    THEN /\ calls' = Append(calls, call)
         /\ log' = log \o lines
         /\ pc' = next
    ELSE TopLevelCatch(call)

----------------------------------------------------------------------------
(* Initial state *)

InitialStores ==
    {<<>>, [k \in {"a", "z"} |-> IF k = "a" THEN "old" ELSE "keep"]}

Init ==
    /\ loaded \in LoadedConfigs
    /\ pc = "launch"
    /\ calls = <<>>
    /\ log = <<>>
    /\ found = FALSE
    /\ localStorage \in InitialStores
    /\ overflow = FALSE

----------------------------------------------------------------------------
(* run(), one action per await *)

L == AdapterExports.LOCATORS

IsBuyWait(c) == c.op = "waitForSelector" /\ c.target = L.BUY_NOW

FailedPolls == Cardinality({i \in 1..Len(calls) : IsBuyWait(calls[i]) /\ ~calls[i].ok})

\* line 10
Launch ==
    /\ pc = "launch"
    /\ \E ok \in BOOLEAN :
         Await(Call("launch", "", NoTimeout, "headless:false", ok), "newPage", <<>>)
    /\ UNCHANGED <<loaded, found, localStorage, overflow>>

\* line 11
NewPage ==
    /\ pc = "newPage"
    /\ \E ok \in BOOLEAN :
         Await(Call("newPage", "", NoTimeout, "", ok), "goto", <<>>)
    /\ UNCHANGED <<loaded, found, localStorage, overflow>>

\* lines 13-14
Goto ==
    /\ pc = "goto"
    /\ \E ok \in BOOLEAN :
         Await(Call("goto", AdapterExports.TARGET_PRODUCT, NoTimeout, "", ok),
               "setViewport", <<Info("Open login page")>>)
    /\ UNCHANGED <<loaded, found, localStorage, overflow>>

ViewportText == ToString(ViewportWidth) \o "x" \o ToString(ViewportHeight)

\* lines 16-17
SetViewport ==
    /\ pc = "setViewport"
    /\ \E ok \in BOOLEAN :
         Await(Call("setViewport", ViewportText, NoTimeout, "", ok),
               "agreement", <<Info("setViewport to 1080x1024")>>)
    /\ UNCHANGED <<loaded, found, localStorage, overflow>>

\* lines 19-20
ClickAgreement ==
    /\ pc = "agreement"
    /\ \E ok \in BOOLEAN :
         Await(Call("click", L.AGREEMENT, NoTimeout, "", ok),
               "setCookie", <<Info("accepted agreement")>>)
    /\ UNCHANGED <<loaded, found, localStorage, overflow>>

\* variant: the storage injection is skipped
SetCookie_SkipStorage ==
    /\ pc = "setCookie"
    /\ \E ok \in BOOLEAN :
         Await(Call("setCookie", AdapterExports.COOKIE, NoTimeout, "", ok),
               "reload", <<Info("set cookie")>>)
    /\ UNCHANGED <<loaded, found, localStorage, overflow>>

\* lines 27-28
SetCookie ==
    /\ pc = "setCookie"
    /\ \E ok \in BOOLEAN :
         Await(Call("setCookie", AdapterExports.COOKIE, NoTimeout, "", ok),
               "evalStorage", <<Info("set cookie")>>)
    /\ UNCHANGED <<loaded, found, localStorage, overflow>>

\* lines 34-41; a rejected evaluate may have stored any leading part of the
\* seed before it threw
EvaluateStorage ==
    /\ pc = "evalStorage"
    /\ LET storage == AdapterExports.STORAGE IN
       \/ /\ Await(Call("evaluate", "storage", NoTimeout, "seed", TRUE),
                   "reload", <<Info("set local storage")>>)
          /\ localStorage' = InjectStorage(localStorage, storage)
       \/ /\ Await(Call("evaluate", "storage", NoTimeout, "seed", FALSE),
                   "reload", <<>>)
          /\ \E n \in 0..Len(storage) :
               localStorage' = InjectFirst(localStorage, storage, n)
    /\ UNCHANGED <<loaded, found, overflow>>

\* lines 43-44, and line 47: let found = false
Reload ==
    /\ pc = "reload"
    /\ \E ok \in BOOLEAN :
         Await(Call("reload", "", NoTimeout, "", ok),
               "waitBuy", <<Info("reload web page")>>)
    /\ found' = FALSE
    /\ UNCHANGED <<loaded, localStorage, overflow>>

\* variant: a timed-out attempt leaves the loop as if the control was found
PollBuyNow_LeaveOnTimeout ==
    /\ pc = "waitBuy"
    /\ ~found
    /\ \E ok \in BOOLEAN :
         /\ calls' = Append(calls, Call("waitForSelector", L.BUY_NOW,
                                         BuyNowTimeout, "", ok))
         /\ log' = Append(log, IF ok THEN Info("ADD_TO_CART button found!")
                                     ELSE Warn("ADD_TO_CART not available, retrying..."))
         /\ found' = TRUE
         /\ pc' = "clickBuy"
    /\ UNCHANGED <<loaded, localStorage, overflow>>

\* variant: the loop gives up with an error after MaxFail failed attempts
PollBuyNow_MaxAttempts ==
    /\ pc = "waitBuy"
    /\ ~found
    /\ \/ /\ calls' = Append(calls, Call("waitForSelector", L.BUY_NOW,
                                          BuyNowTimeout, "", TRUE))
          /\ log' = Append(log, Info("ADD_TO_CART button found!"))
          /\ found' = TRUE
          /\ pc' = "clickBuy"
       \/ /\ IF FailedPolls < MaxFail
             THEN /\ calls' = Append(calls, Call("waitForSelector", L.BUY_NOW,
                                                  BuyNowTimeout, "", FALSE))
                  /\ log' = Append(log, Warn("ADD_TO_CART not available, retrying..."))
                  /\ pc' = "waitBuy"
             ELSE TopLevelCatch(Call("waitForSelector", L.BUY_NOW,
                                     BuyNowTimeout, "", FALSE))
          /\ found' = FALSE
    /\ UNCHANGED <<loaded, localStorage, overflow>>

\* variant: the buy-now wait is not inside a local try
PollBuyNow_Fatal ==
    /\ pc = "waitBuy"
    /\ ~found
    /\ \E ok \in BOOLEAN :
         Await(Call("waitForSelector", L.BUY_NOW, BuyNowTimeout, "", ok),
               "clickBuy", <<Info("ADD_TO_CART button found!")>>)
    /\ found' = (pc' = "clickBuy")
    /\ UNCHANGED <<loaded, localStorage, overflow>>

\* lines 48-56: one turn of while (!found) { try { wait } catch { warn } }
PollBuyNow ==
    /\ pc = "waitBuy"
    /\ ~found
    /\ \/ /\ calls' = Append(calls, Call("waitForSelector", L.BUY_NOW,
                                          BuyNowTimeout, "", TRUE))
          /\ log' = Append(log, Info("ADD_TO_CART button found!"))
          /\ found' = TRUE
          /\ pc' = "clickBuy"
          /\ UNCHANGED overflow
       \/ /\ IF FailedPolls < MaxFail
             THEN /\ calls' = Append(calls, Call("waitForSelector", L.BUY_NOW,
                                                  BuyNowTimeout, "", FALSE))
                  /\ log' = Append(log, Warn("ADD_TO_CART not available, retrying..."))
                  /\ UNCHANGED overflow
             ELSE /\ overflow' = TRUE
                  /\ UNCHANGED <<calls, log>>
          /\ found' = FALSE
          /\ pc' = "waitBuy"
    /\ UNCHANGED <<loaded, localStorage>>

\* lines 58-60
ClickBuyNow ==
    /\ pc = "clickBuy"
    /\ found
    /\ \E ok \in BOOLEAN :
         Await(Call("click", L.BUY_NOW, NoTimeout, "", ok),
               "evalStyle", <<Info("ADD_TO_CART clicked")>>)
    /\ UNCHANGED <<loaded, found, localStorage, overflow>>

\* lines 62-70
EvaluateStyle ==
    /\ pc = "evalStyle"
    /\ \E ok \in BOOLEAN :
         Await(Call("evaluate", L.GO_TO_CART, NoTimeout, "style", ok),
               "waitCart", <<>>)
    /\ UNCHANGED <<loaded, found, localStorage, overflow>>

\* variant: a timed-out attach wait is retried without bound (repeated
\* timeouts are recorded once)
WaitGoToCart_RetryForever ==
    /\ pc \in {"waitCart", "retryCart"}
    /\ IF pc = "retryCart"
       THEN /\ pc' = "waitCart"
            /\ UNCHANGED <<calls, log>>
       ELSE \E ok \in BOOLEAN :
              LET call == Call("waitForSelector", L.GO_TO_CART,
                               GoToCartTimeout, "attached", ok)
              IN  IF ok
                  THEN /\ calls' = Append(calls, call)
                       /\ pc' = "clickCart"
                       /\ UNCHANGED log
                  ELSE /\ pc' = "retryCart"
                       /\ IF calls[Len(calls)] = call
                          THEN UNCHANGED <<calls, log>>
                          ELSE /\ calls' = Append(calls, call)
                               /\ log' = Append(log, Warn("GO_TO_CART not available, retrying..."))
    /\ UNCHANGED <<loaded, found, localStorage, overflow>>

\* variant: the forced click is attempted even when the attach wait timed out
WaitGoToCart_ClickAnyway ==
    /\ pc = "waitCart"
    /\ \E ok \in BOOLEAN :
         /\ calls' = Append(calls, Call("waitForSelector", L.GO_TO_CART,
                                         GoToCartTimeout, "attached", ok))
         /\ log' = IF ok THEN log
                   ELSE Append(log, Warn("GO_TO_CART not available, retrying..."))
         /\ pc' = "clickCart"
    /\ UNCHANGED <<loaded, found, localStorage, overflow>>

\* variant: the attach wait is outside the local try
WaitGoToCart_Fatal ==
    /\ pc = "waitCart"
    /\ \E ok \in BOOLEAN :
         Await(Call("waitForSelector", L.GO_TO_CART, GoToCartTimeout, "attached", ok),
               "clickCart", <<>>)
    /\ UNCHANGED <<loaded, found, localStorage, overflow>>

\* lines 72-73 and 77-79: the wait inside the local try
WaitGoToCart ==
    /\ pc = "waitCart"
    /\ \E ok \in BOOLEAN :
         /\ calls' = Append(calls, Call("waitForSelector", L.GO_TO_CART,
                                         GoToCartTimeout, "attached", ok))
         /\ IF ok
            THEN /\ pc' = "clickCart"
                 /\ UNCHANGED log
            ELSE /\ log' = Append(log, Warn("GO_TO_CART not available, retrying..."))
                 /\ pc' = "nav1"
    /\ UNCHANGED <<loaded, found, localStorage, overflow>>

\* lines 74-79: the forced click inside the same try
ClickGoToCart ==
    /\ pc = "clickCart"
    /\ \E ok \in BOOLEAN :
         /\ calls' = Append(calls, Call("click", L.GO_TO_CART, NoTimeout, "force", ok))
         /\ log' = Append(log, IF ok THEN Info("GO_TO_CART button found and clicked!")
                                     ELSE Warn("GO_TO_CART not available, retrying..."))
         /\ pc' = "nav1"
    /\ UNCHANGED <<loaded, found, localStorage, overflow>>

\* line 81
WaitNavigationCart ==
    /\ pc = "nav1"
    /\ \E ok \in BOOLEAN :
         Await(Call("waitForNavigation", "", NoTimeout, "", ok), "waitCheckbox", <<>>)
    /\ UNCHANGED <<loaded, found, localStorage, overflow>>

\* line 82
WaitCheckbox ==
    /\ pc = "waitCheckbox"
    /\ \E ok \in BOOLEAN :
         Await(Call("waitForSelector", L.CHECKBOX, NoTimeout, "", ok),
               "clickCheckbox", <<>>)
    /\ UNCHANGED <<loaded, found, localStorage, overflow>>

\* lines 83-84
ClickCheckbox ==
    /\ pc = "clickCheckbox"
    /\ \E ok \in BOOLEAN :
         Await(Call("click", L.CHECKBOX, NoTimeout, "", ok),
               "waitCheckout", <<Info("CHECKBOX found and and clicked!")>>)
    /\ UNCHANGED <<loaded, found, localStorage, overflow>>

\* variant: a timed-out checkout wait is only warned about
WaitCheckout_Swallowed ==
    /\ pc = "waitCheckout"
    /\ \E ok \in BOOLEAN :
         /\ calls' = Append(calls, Call("waitForSelector", L.CHECKOUT,
                                         CheckoutTimeout, "", ok))
         /\ log' = Append(log, IF ok THEN Info("CHECKOUT button found")
                                     ELSE Warn("CHECKOUT not available"))
         /\ pc' = "clickCheckout"
    /\ UNCHANGED <<loaded, found, localStorage, overflow>>

\* lines 86-87
WaitCheckout ==
    /\ pc = "waitCheckout"
    /\ \E ok \in BOOLEAN :
         Await(Call("waitForSelector", L.CHECKOUT, CheckoutTimeout, "", ok),
               "clickCheckout", <<Info("CHECKOUT button found")>>)
    /\ UNCHANGED <<loaded, found, localStorage, overflow>>

\* lines 88-89
ClickCheckout ==
    /\ pc = "clickCheckout"
    /\ \E ok \in BOOLEAN :
         Await(Call("click", L.CHECKOUT, NoTimeout, "", ok),
               "nav2", <<Info("Proceeding to checkout")>>)
    /\ UNCHANGED <<loaded, found, localStorage, overflow>>

\* line 92
WaitNavigationCheckout ==
    /\ pc = "nav2"
    /\ \E ok \in BOOLEAN :
         Await(Call("waitForNavigation", "", NoTimeout, "networkidle2", ok),
               "delayLoad", <<>>)
    /\ UNCHANGED <<loaded, found, localStorage, overflow>>

\* lines 93-94: a timer, it always resolves
DelayLoad ==
    /\ pc = "delayLoad"
    /\ Await(Call("delay", "", LoadPause, "", TRUE),
             "waitPay", <<Info("waiting for page to load")>>)
    /\ UNCHANGED <<loaded, found, localStorage, overflow>>

\* variant: the wait for the pay control is inside the local try
WaitPay_InsideTry ==
    /\ pc = "waitPay"
    /\ \E ok \in BOOLEAN :
         /\ calls' = Append(calls, Call("waitForSelector", L.PAY, PayTimeout, "visible", ok))
         /\ IF ok
            THEN /\ log' = Append(log, Info("found PAY button"))
                 /\ pc' = "clickPay"
            ELSE /\ log' = Append(log, Warn("pay button not clicked"))
                 /\ pc' = "hover"
    /\ UNCHANGED <<loaded, found, localStorage, overflow>>

\* lines 96-97: outside the local try of the pay click
WaitPay ==
    /\ pc = "waitPay"
    /\ \E ok \in BOOLEAN :
         Await(Call("waitForSelector", L.PAY, PayTimeout, "visible", ok),
               "clickPay", <<Info("found PAY button")>>)
    /\ UNCHANGED <<loaded, found, localStorage, overflow>>

\* variant: the forced pay click is outside the local try
ClickPay_Fatal ==
    /\ pc = "clickPay"
    /\ \E ok \in BOOLEAN :
         Await(Call("click", L.PAY, NoTimeout, "force", ok),
               "hover", <<Info("PAY button clicked")>>)
    /\ UNCHANGED <<loaded, found, localStorage, overflow>>

\* lines 98-104
ClickPay ==
    /\ pc = "clickPay"
    /\ \E ok \in BOOLEAN :
         /\ calls' = Append(calls, Call("click", L.PAY, NoTimeout, "force", ok))
         /\ log' = Append(log, IF ok THEN Info("PAY button clicked")
                                     ELSE Warn("pay button not clicked"))
         /\ pc' = "hover"
    /\ UNCHANGED <<loaded, found, localStorage, overflow>>

\* lines 107-108
HoverOrdering ==
    /\ pc = "hover"
    /\ \E ok \in BOOLEAN :
         Await(Call("hover", L.ORDERING, NoTimeout, "", ok), "nav3", <<Info("BUY!!")>>)
    /\ UNCHANGED <<loaded, found, localStorage, overflow>>

\* variant: a failed final navigation wait is logged and the browser is
\* closed all the same
WaitNavigationQR_CloseOnFailure ==
    /\ pc = "nav3"
    /\ \E ok \in BOOLEAN :
         /\ calls' = Append(calls, Call("waitForNavigation", "", NoTimeout, "", ok))
         /\ IF ok
            THEN /\ log' = log \o <<Info("QR URL"), Info("ALL THING DONE! LET'S PAY!"),
                                    Warn("CTRL+C When Everything Done!"),
                                    Warn("Total processing time"), Info("QR URL")>>
                 /\ pc' = "delayLong"
            ELSE /\ log' = Append(log, Error("Error"))
                 /\ pc' = "close"
    /\ UNCHANGED <<loaded, found, localStorage, overflow>>

\* lines 110-116
WaitNavigationQR ==
    /\ pc = "nav3"
    /\ \E ok \in BOOLEAN :
         Await(Call("waitForNavigation", "", NoTimeout, "", ok), "delayLong",
               <<Info("QR URL"), Info("ALL THING DONE! LET'S PAY!"),
                 Warn("CTRL+C When Everything Done!"),
                 Warn("Total processing time"), Info("QR URL")>>)
    /\ UNCHANGED <<loaded, found, localStorage, overflow>>

\* variant: the flow ends after the long idle without closing the browser
DelayLong_SkipClose ==
    /\ pc = "delayLong"
    /\ Await(Call("delay", "", LongIdle, "", TRUE), "done", <<>>)
    /\ UNCHANGED <<loaded, found, localStorage, overflow>>

\* line 117: a timer, it always resolves
DelayLong ==
    /\ pc = "delayLong"
    /\ Await(Call("delay", "", LongIdle, "", TRUE), "close", <<>>)
    /\ UNCHANGED <<loaded, found, localStorage, overflow>>

\* line 118
Close ==
    /\ pc = "close"
    /\ \E ok \in BOOLEAN :
         Await(Call("close", "", NoTimeout, "", ok), "done", <<>>)
    /\ UNCHANGED <<loaded, found, localStorage, overflow>>

Next ==
    \/ Launch \/ NewPage \/ Goto \/ SetViewport \/ ClickAgreement
    \/ SetCookie \/ EvaluateStorage \/ Reload
    \/ PollBuyNow \/ ClickBuyNow \/ EvaluateStyle
    \/ WaitGoToCart \/ ClickGoToCart
    \/ WaitNavigationCart \/ WaitCheckbox \/ ClickCheckbox
    \/ WaitCheckout \/ ClickCheckout
    \/ WaitNavigationCheckout \/ DelayLoad
    \/ WaitPay \/ ClickPay \/ HoverOrdering
    \/ WaitNavigationQR \/ DelayLong \/ Close

Spec == Init /\ [][Next]_vars

----------------------------------------------------------------------------
(* Reading the histories *)

Idx == 1..Len(calls)

IsCall(c, op, target) == c.op = op /\ c.target = target

BuyWaits == {i \in Idx : IsBuyWait(calls[i])}
BuyFound == \E i \in BuyWaits : calls[i].ok

Lines(level) == {i \in 1..Len(log) : log[i].level = level}
LinesWith(line) == {i \in 1..Len(log) : log[i] = line}

LastCall == calls[Len(calls)]
LastLine == log[Len(log)]

BuyWarning == Warn("ADD_TO_CART not available, retrying...")
CartWarning == Warn("GO_TO_CART not available, retrying...")
PayWarning == Warn("pay button not clicked")

\* the calls of a failure-free run up to the reload, with the outcome left open
SeedSteps(ok) ==
    << Call("launch", "", NoTimeout, "headless:false", ok),
       Call("newPage", "", NoTimeout, "", ok),
       Call("goto", loaded.config.target_product, NoTimeout, "", ok),
       Call("setViewport", "1080x1024", NoTimeout, "", ok),
       Call("click", loaded.config.locators.agreement, NoTimeout, "", ok),
       Call("setCookie", loaded.cookie, NoTimeout, "", ok),
       Call("evaluate", "storage", NoTimeout, "seed", ok),
       Call("reload", "", NoTimeout, "", ok) >>

\* and from the buy-now poll to the close
CheckoutSteps ==
    << Call("waitForSelector", loaded.config.locators.buy_now, 3000, "", TRUE),
       Call("click", loaded.config.locators.buy_now, NoTimeout, "", TRUE),
       Call("evaluate", loaded.config.locators.go_to_cart, NoTimeout, "style", TRUE),
       Call("waitForSelector", loaded.config.locators.go_to_cart, 5000, "attached", TRUE),
       Call("click", loaded.config.locators.go_to_cart, NoTimeout, "force", TRUE),
       Call("waitForNavigation", "", NoTimeout, "", TRUE),
       Call("waitForSelector", loaded.config.locators.checkbox, NoTimeout, "", TRUE),
       Call("click", loaded.config.locators.checkbox, NoTimeout, "", TRUE),
       Call("waitForSelector", loaded.config.locators.checkout, 1000, "", TRUE),
       Call("click", loaded.config.locators.checkout, NoTimeout, "", TRUE),
       Call("waitForNavigation", "", NoTimeout, "networkidle2", TRUE),
       Call("delay", "", 5000, "", TRUE),
       Call("waitForSelector", loaded.config.locators.pay, 8000, "visible", TRUE),
       Call("click", loaded.config.locators.pay, NoTimeout, "force", TRUE),
       Call("hover", loaded.config.locators.ordering, NoTimeout, "", TRUE),
       Call("waitForNavigation", "", NoTimeout, "", TRUE),
       Call("delay", "", 999999, "", TRUE),
       Call("close", "", NoTimeout, "", TRUE) >>

AllOk == \A i \in Idx : calls[i].ok

IsPrefix(s, t) == Len(s) <= Len(t) /\ \A i \in 1..Len(s) : s[i] = t[i]

----------------------------------------------------------------------------
(* C1: step 6 repeats the buy-now wait, every attempt with a 3000ms        *)
(* timeout, exactly until the first attempt that succeeds: after k failed  *)
(* attempts and one success there are exactly k+1 waits and k warnings,    *)
(* and the buy-now click never comes before a successful buy-now wait.     *)
C1_PollExactlyUntilFound ==
    /\ \A i \in BuyWaits : calls[i].timeout = 3000
    /\ \A i \in Idx :
         IsCall(calls[i], "click", L.BUY_NOW) =>
            \E j \in BuyWaits : j < i /\ calls[j].ok
    /\ \A i \in BuyWaits : calls[i].ok => \A j \in BuyWaits : j <= i
    /\ found <=> BuyFound
    /\ ~overflow =>
         /\ Cardinality(LinesWith(BuyWarning)) = FailedPolls
         /\ Cardinality(BuyWaits) = FailedPolls + (IF found THEN 1 ELSE 0)

C1_Witness ==
    /\ FailedPolls = 2
    /\ found
    /\ \E i \in Idx : IsCall(calls[i], "click", L.BUY_NOW)
    /\ Cardinality(BuyWaits) = 3
    /\ Cardinality(LinesWith(BuyWarning)) = 2

----------------------------------------------------------------------------
(* C2: when the step-8 wait for the go-to-cart control times out, the flow *)
(* logs a warning, logs no error, and the next call it makes is the        *)
(* step-9 wait for navigation.                                             *)
IsCartWait(c) == c.op = "waitForSelector" /\ c.target = L.GO_TO_CART

C2_CartTimeoutNonFatal ==
    \A i \in Idx :
        (IsCartWait(calls[i]) /\ ~calls[i].ok) =>
            /\ i = Len(calls) =>
                 /\ pc = "nav1"
                 /\ LastLine = CartWarning
                 /\ Lines("error") = {}
            /\ i < Len(calls) =>
                 /\ calls[i + 1].op = "waitForNavigation"
                 /\ Cardinality(LinesWith(CartWarning)) = 1

C2_Witness ==
    \E i \in Idx :
        /\ IsCartWait(calls[i]) /\ ~calls[i].ok
        /\ i < Len(calls)
        /\ calls[i + 1] = Call("waitForNavigation", "", NoTimeout, "", TRUE)
        /\ Lines("error") = {}

----------------------------------------------------------------------------
(* C3 as stated: when the step-12 wait for the visible pay control times   *)
(* out, the flow continues to step 13 (the hover) instead of ending in the *)
(* top-level error handler.                                                *)
IsPayWait(c) == c.op = "waitForSelector" /\ c.target = L.PAY

C3_PayTimeoutContinues ==
    \A i \in Idx :
        (IsPayWait(calls[i]) /\ ~calls[i].ok) =>
            /\ Lines("error") = {} \/ i < Len(calls)
            /\ i = Len(calls) => pc \in {"clickPay", "hover"}
            /\ i < Len(calls) => calls[i + 1].op \in {"click", "hover"}

(* C3: amended: when the step-12 wait for the visible pay control times    *)
(* out, the failure reaches the top-level handler: one error line is       *)
(* logged, the flow ends, and neither the pay click nor the hover is made. *)
C3_PayTimeoutFatal ==
    \A i \in Idx :
        (IsPayWait(calls[i]) /\ ~calls[i].ok) =>
            /\ i = Len(calls)
            /\ pc = "done"
            /\ LastLine = Error("Error")
            /\ Cardinality(Lines("error")) = 1
            /\ LinesWith(PayWarning) = {}
            /\ \A j \in Idx : calls[j].op # "hover" /\ ~IsCall(calls[j], "click", L.PAY)

C3_Witness ==
    /\ Len(calls) > 0
    /\ IsPayWait(LastCall) /\ ~LastCall.ok
    /\ pc = "done"

----------------------------------------------------------------------------
(* C4: a failure of the agreement click, of the checkbox wait or click, of *)
(* the checkout wait or click, and of every other call outside the three   *)
(* local catch scopes, reaches the top-level handler: exactly one error    *)
(* line is logged and no further call is made.                             *)
InLocalCatch(c) ==
    \/ IsBuyWait(c)
    \/ IsCartWait(c)
    \/ IsCall(c, "click", L.GO_TO_CART)
    \/ IsCall(c, "click", L.PAY)

C4_FailurePropagates ==
    /\ \A i \in Idx :
         (~calls[i].ok /\ ~InLocalCatch(calls[i])) =>
            /\ i = Len(calls)
            /\ pc = "done"
            /\ Cardinality(Lines("error")) = 1
            /\ LastLine = Error("Error")
    /\ \A i \in Idx :
         (~calls[i].ok /\ InLocalCatch(calls[i]) /\ i = Len(calls)) =>
            Lines("error") = {}
    /\ Lines("error") # {} => ~LastCall.ok /\ ~InLocalCatch(LastCall)

C4_Witness ==
    /\ pc = "done"
    /\ Cardinality(Lines("error")) = 1
    /\ ~LastCall.ok
    /\ \/ IsCall(LastCall, "click", L.AGREEMENT)
       \/ LastCall.target = L.CHECKBOX
       \/ LastCall.target = L.CHECKOUT

----------------------------------------------------------------------------
(* C5: in a run where every wait and click succeeds at once the flow makes *)
(* these calls, in this order and each once: launch, open page, navigate,  *)
(* setViewport(1080,1024), click agreement, setCookie, evaluate(storage    *)
(* seed), reload, wait and click buy-now, style go-to-cart, wait and       *)
(* forced click go-to-cart, wait for navigation, wait and click checkbox,  *)
(* wait and click checkout, wait for navigation (network idle), 5-second   *)
(* pause, wait and forced click pay, hover ordering, wait for navigation,  *)
(* long idle, close; close is the last call, right after the long idle.    *)
HappyCalls == SeedSteps(TRUE) \o CheckoutSteps

C5_HappyPathOrder ==
    AllOk =>
        /\ IsPrefix(calls, HappyCalls)
        /\ pc = "done" <=> calls = HappyCalls
        /\ pc = "done" =>
             /\ LastCall.op = "close"
             /\ calls[Len(calls) - 1] = Call("delay", "", 999999, "", TRUE)
             /\ Cardinality({i \in Idx : calls[i].op = "close"}) = 1

C5_Witness ==
    /\ pc = "done"
    /\ AllOk
    /\ Len(calls) = 26
    /\ LastCall.op = "close"

----------------------------------------------------------------------------
(* C6: steps 1-5 do not branch: for every configuration the calls made     *)
(* before the first buy-now wait are a prefix of launch, open page,        *)
(* navigate, setViewport, click agreement, setCookie, evaluate(storage     *)
(* seed), reload; a proper prefix only when its last call failed; cookies  *)
(* are set before local storage, and local storage before the reload.      *)
FirstBuyWait == IF BuyWaits = {} THEN Len(calls) + 1
                ELSE CHOOSE i \in BuyWaits : \A j \in BuyWaits : i <= j

BeforePoll == SubSeq(calls, 1, FirstBuyWait - 1)

PositionsOf(op) == {i \in Idx : calls[i].op = op}

C6_SeedStepsLinear ==
    LET pre == BeforePoll
        n == Len(pre)
    IN  /\ n <= 8
        /\ \A i \in 1..n :
             pre[i] = SeedSteps(pre[i].ok)[i]
        /\ \A i \in 1..(n - 1) : pre[i].ok
        /\ (n < 8 /\ pc = "done") => ~pre[n].ok
        /\ (n < 8 /\ pc # "done") =>
             pc = <<"launch", "newPage", "goto", "setViewport", "agreement",
                    "setCookie", "evalStorage", "reload">>[n + 1]
        /\ (n = 8 /\ pre[8].ok /\ BuyWaits = {}) => (pc = "waitBuy" \/ overflow)
        /\ BuyWaits # {} => n = 8 /\ pre[8].ok
        /\ \A i \in PositionsOf("setCookie"), j \in PositionsOf("evaluate"),
              k \in PositionsOf("reload") :
             (calls[j].flag = "seed") => i < j /\ j < k

C6_Witness ==
    /\ BuyWaits # {}
    /\ FirstBuyWait = 9
    /\ calls[9].ok
    /\ loaded.config.target_product = "https://shop/p2"
    /\ Len(loaded.storage) = 2

----------------------------------------------------------------------------
(* C7 as stated: in every run in which the top-level handler logs an       *)
(* error the close operation of the browser is never invoked, neither      *)
(* before nor after the error is logged.                                   *)
C7_NoCloseInFailedRun ==
    Lines("error") # {} => PositionsOf("close") = {}

(* C7: amended: in every run in which the top-level handler logs an error  *)
(* the handler makes no call at all (no close, no cleanup): the failed     *)
(* call stays the last call of the run, and close was invoked before the   *)
(* error only when the error is the failure of that close itself.          *)
C7_HandlerLeaksBrowser ==
    /\ [](Lines("error") # {} =>
            /\ pc = "done"
            /\ ~LastCall.ok
            /\ \A i \in PositionsOf("close") : i = Len(calls) /\ ~calls[i].ok)
    /\ [][Lines("error") # {} => calls' = calls]_vars

C7_Witness ==
    /\ Lines("error") # {}
    /\ pc = "done"
    /\ LastCall.op = "hover"
    /\ PositionsOf("close") = {}

----------------------------------------------------------------------------
(* C8: if the buy-now selector never appears (every wait of step 6 fails)  *)
(* the flow stays in the step-6 loop: as long as no buy-now wait has       *)
(* succeeded it is still polling, has logged no error, has made no buy-now *)
(* click and no later call, and another failing attempt that keeps it in   *)
(* the loop is possible after any number of failed attempts.               *)
ReloadDone == \E i \in Idx : calls[i].op = "reload" /\ calls[i].ok

C8_PollNeverGivesUp ==
    /\ (ReloadDone /\ ~BuyFound) =>
          /\ pc = "waitBuy"
          /\ ~found
          /\ Lines("error") = {}
          /\ \A i \in Idx : i > 8 => IsBuyWait(calls[i]) /\ ~calls[i].ok
          /\ Len(calls) = 8 + FailedPolls
    /\ pc = "waitBuy" => ENABLED (PollBuyNow /\ pc' = "waitBuy" /\ ~found')

C8_Witness ==
    /\ overflow
    /\ pc = "waitBuy"
    /\ ~found
    /\ FailedPolls = MaxFail
    /\ Lines("error") = {}

----------------------------------------------------------------------------
(* C9: when the forced click on the pay control fails after the pay        *)
(* control was found, the flow logs a warning, logs no error, and the next *)
(* call it makes is the hover over the ordering element.                   *)
IsPayClick(c) == IsCall(c, "click", L.PAY)

C9_PayClickNonFatal ==
    \A i \in Idx :
        (IsPayClick(calls[i]) /\ ~calls[i].ok) =>
            /\ calls[i].flag = "force"
            /\ IsPayWait(calls[i - 1]) /\ calls[i - 1].ok
            /\ Cardinality(LinesWith(PayWarning)) = 1
            /\ i = Len(calls) =>
                 /\ pc = "hover"
                 /\ LastLine = PayWarning
                 /\ Lines("error") = {}
            /\ i < Len(calls) =>
                 calls[i + 1].op = "hover" /\ calls[i + 1].target = L.ORDERING

C9_Witness ==
    \E i \in Idx :
        /\ IsPayClick(calls[i]) /\ ~calls[i].ok
        /\ i < Len(calls)
        /\ calls[i + 1] = Call("hover", L.ORDERING, NoTimeout, "", TRUE)
        /\ Lines("error") = {}

----------------------------------------------------------------------------
(* C10: local-storage injection stores, for every key of the configured    *)
(* seed, the JSON serialization of its value under that key and writes no  *)
(* other key: for the seed {a: 1, b: "x"} the storage afterwards maps a to *)
(* the text 1 and b to the three-character text "x" with its quotes.       *)
SeedKeySet(seed) == {seed[i].key : i \in 1..Len(seed)}

InjectionDone == \E i \in Idx : calls[i].op = "evaluate" /\ calls[i].flag = "seed" /\ calls[i].ok

ExampleSeed == << [key |-> "a", value |-> Num(1)], [key |-> "b", value |-> Str(<<"x">>)] >>

\* the JSON texts of the seed values, written out
JSONText(v) ==
    CASE v = Num(1) -> "1"
      [] v = Str(<<"x">>) -> "\"x\""
      [] v = Str(<<DQ>>) -> "\"\\\"\""

C10_StorageInjection ==
    InjectionDone =>
        LET seed == loaded.storage IN
        /\ \A i \in 1..Len(seed) :
             /\ seed[i].key \in DOMAIN localStorage
             /\ localStorage[seed[i].key] = JSONText(seed[i].value)
        /\ \E before \in InitialStores :
             /\ DOMAIN localStorage = (DOMAIN before) \cup SeedKeySet(seed)
             /\ \A k \in (DOMAIN before) \ SeedKeySet(seed) : localStorage[k] = before[k]
        /\ seed = ExampleSeed =>
             /\ localStorage["a"] = "1"
             /\ localStorage["b"] = "\"x\""
             /\ Len(localStorage["b"]) = 3

C10_Witness ==
    /\ InjectionDone
    /\ loaded.storage = ExampleSeed
    /\ localStorage["a"] = "1"
    /\ localStorage["b"] = "\"x\""
    /\ "z" \in DOMAIN localStorage

----------------------------------------------------------------------------
(* C11 as stated: step 6 (the buy-now poll and the buy-now click) cannot   *)
(* fail: no failure during step 6 reaches the top-level handler, so no run *)
(* logs an error and ends while it is in step 6.                           *)
IsBuyClick(c) == IsCall(c, "click", L.BUY_NOW)

C11_StepSixNeverFails ==
    Lines("error") # {} => ~(IsBuyWait(LastCall) \/ IsBuyClick(LastCall))

(* C11: amended: the poll loop of step 6 cannot fail: no failure of a      *)
(* buy-now wait reaches the top-level handler, it is only warned about and *)
(* retried; a failure of the buy-now click that follows the loop does      *)
(* reach the handler, which logs one error and ends the flow.              *)
C11_PollLoopNeverFails ==
    /\ Lines("error") # {} => ~IsBuyWait(LastCall)
    /\ \A i \in Idx :
         (IsBuyWait(calls[i]) /\ ~calls[i].ok) =>
            /\ i = Len(calls) => pc = "waitBuy" /\ Lines("error") = {}
            /\ i < Len(calls) => IsBuyWait(calls[i + 1])
    /\ \A i \in Idx :
         (IsBuyClick(calls[i]) /\ ~calls[i].ok) =>
            /\ i = Len(calls)
            /\ pc = "done"
            /\ Cardinality(Lines("error")) = 1

C11_Witness ==
    /\ pc = "done"
    /\ IsBuyClick(LastCall) /\ ~LastCall.ok
    /\ FailedPolls = 1
    /\ Cardinality(Lines("error")) = 1

----------------------------------------------------------------------------
(* C12: the browser is closed only at the very end of a fully successful   *)
(* run: close is invoked at most once, and only after the final navigation *)
(* wait of step 14 succeeded and the long idle completed; no run logs an   *)
(* error through the top-level handler and invokes close afterwards.       *)
C12_CloseOnlyAtEnd ==
    /\ [](/\ Cardinality(PositionsOf("close")) <= 1
          /\ \A i \in PositionsOf("close") :
               /\ i = Len(calls)
               /\ i = 8 + Cardinality(BuyWaits) + 16
                      + Cardinality({j \in Idx : IsCall(calls[j], "click", L.GO_TO_CART)})
               /\ calls[i - 1] = Call("delay", "", 999999, "", TRUE)
               /\ calls[i - 2] = Call("waitForNavigation", "", NoTimeout, "", TRUE)
               /\ calls[i - 3].op = "hover" /\ calls[i - 3].ok
               /\ \A j \in 1..(i - 1) : ~calls[j].ok => InLocalCatch(calls[j])
               /\ Lines("error") # {} => ~calls[i].ok)
    /\ [][Lines("error") # {} => PositionsOf("close")' = PositionsOf("close")]_vars

C12_Witness ==
    /\ pc = "done"
    /\ Lines("error") = {}
    /\ LastCall = Call("close", "", NoTimeout, "", TRUE)
    /\ FailedPolls = 1
    /\ LinesWith(PayWarning) # {}

----------------------------------------------------------------------------
(* C13: in step 8 the forced click on the go-to-cart control is attempted  *)
(* only after the attach wait for it succeeded; when the wait times out no *)
(* go-to-cart click is made; whether the wait or the click fails, exactly  *)
(* one warning is logged and step 8 is not retried: it runs at most once.  *)
IsCartClick(c) == IsCall(c, "click", L.GO_TO_CART)

CartWaits == {i \in Idx : IsCartWait(calls[i])}
CartClicks == {i \in Idx : IsCartClick(calls[i])}

C13_GoToCartOnce ==
    /\ Cardinality(CartWaits) <= 1
    /\ Cardinality(CartClicks) <= 1
    /\ \A i \in CartClicks :
         /\ calls[i].flag = "force"
         /\ i - 1 \in CartWaits
         /\ calls[i - 1].ok
    /\ \A i \in CartWaits : ~calls[i].ok => CartClicks = {}
    /\ Cardinality(LinesWith(CartWarning)) =
         Cardinality({i \in CartWaits \cup CartClicks : ~calls[i].ok})
    /\ Cardinality(LinesWith(CartWarning)) <= 1
    /\ \A i \in CartWaits :
         (calls[i].ok /\ i = Len(calls)) => pc = "clickCart"

C13_Witness ==
    /\ \E i \in CartClicks : ~calls[i].ok
    /\ Cardinality(LinesWith(CartWarning)) = 1
    /\ pc = "waitCheckbox"

----------------------------------------------------------------------------
(* C14: every click on the checkbox, checkout and pay controls is preceded *)
(* in the same run by a successful wait for the same selector; the three   *)
(* clicks happen in the order checkbox, checkout, pay; none of them        *)
(* happens before the buy-now click.                                       *)
GuardedTargets == {L.CHECKBOX, L.CHECKOUT, L.PAY}

ClicksOn(target) == {i \in Idx : IsCall(calls[i], "click", target)}

C14_ClicksFollowWaits ==
    /\ \A t \in GuardedTargets :
         \A i \in ClicksOn(t) :
            /\ \E j \in 1..(i - 1) :
                 calls[j].op = "waitForSelector" /\ calls[j].target = t /\ calls[j].ok
            /\ \E b \in ClicksOn(L.BUY_NOW) : b < i /\ calls[b].ok
            /\ Cardinality(ClicksOn(t)) = 1
    /\ \A i \in ClicksOn(L.CHECKOUT) : \E j \in ClicksOn(L.CHECKBOX) : j < i
    /\ \A i \in ClicksOn(L.PAY) : \E j \in ClicksOn(L.CHECKOUT) : j < i

C14_Witness ==
    /\ ClicksOn(L.CHECKBOX) # {}
    /\ ClicksOn(L.CHECKOUT) # {}
    /\ ClicksOn(L.PAY) # {}
    /\ pc = "hover"

----------------------------------------------------------------------------
(* Every awaited call eventually settles and run() is resumed: a step that *)
(* is possible is eventually taken.  Failed polls beyond MaxFail leave the *)
(* state unchanged, so this fairness also says that the poll does not fail *)
(* forever once it has failed more than MaxFail times.                     *)
LiveSpec == Init /\ [][Next]_vars /\ WF_vars(Next)

(* C15: if every controller call eventually returns and some attempt of    *)
(* the buy-now wait eventually succeeds, the run eventually ends, in       *)
(* exactly one of two ways: the browser was closed after the long idle, or *)
(* one error line was logged and the browser was left open; a run that     *)
(* never ends is from some point on in the step-6 poll for good.           *)
Closed == \E i \in PositionsOf("close") : calls[i].ok

ClosedAfterIdle ==
    /\ Closed
    /\ LastCall.op = "close"
    /\ calls[Len(calls) - 1] = Call("delay", "", 999999, "", TRUE)
    /\ Lines("error") = {}

FailedAndLeftOpen ==
    /\ Cardinality(Lines("error")) = 1
    /\ ~Closed

C15_EndsClosedOrFailed ==
    /\ [](pc = "done" => (ClosedAfterIdle /\ ~FailedAndLeftOpen)
                           \/ (FailedAndLeftOpen /\ ~ClosedAfterIdle))
    /\ (<>[](pc = "waitBuy" /\ ~BuyFound)) \/ <>[](pc = "done")

C15_Witness ==
    /\ pc = "done"
    /\ FailedAndLeftOpen
    /\ BuyFound
    /\ FailedPolls = MaxFail
    /\ LastCall.op = "waitForNavigation"

====
